---- MODULE Spec2Model ----
(***************************************************************************)
(* Write-ahead log of 03-write-ahead-log: FileLog (log.go), an append-only *)
(* file of frames  length(8, big-endian) | payload | CRC-32(4, big-endian) *)
(* and WriteAheadLog (wal.go), a map rebuilt by replaying gob-encoded      *)
(* WriteOperation records from that file.                                  *)
(*                                                                         *)
(* The file is modelled byte by byte (a sequence over 0..255), the         *)
(* checksum is the real CRC-32 (IEEE) computed bit by bit, and a Go byte   *)
(* slice handed to or returned by the WAL keeps the difference between nil *)
(* and a non-nil empty slice.                                              *)
(***************************************************************************)
EXTENDS Integers, Sequences, FiniteSets, TLC

(***************************************************************************)
(* Bytes and big-endian integers (encoding/binary, binary.BigEndian)       *)
(***************************************************************************)
Byte == 0..255

\* the positions (0 = least significant) of the 1 bits of byte b
ByteBits(b) == {i \in 0..7 : (b \div (2 ^ i)) % 2 = 1}

Xor(A, B) == (A \ B) \cup (B \ A)

RECURSIVE BitsToInt(_, _, _)
\* the value of bits base..base+n-1 of the set of bit positions w
BitsToInt(w, base, n) ==
    IF n = 0 THEN 0
    ELSE (IF base + n - 1 \in w THEN 2 ^ (n - 1) ELSE 0) + BitsToInt(w, base, n - 1)

XorNibble ==
    [a \in 0..15 |-> [b \in 0..15 |-> BitsToInt(Xor(ByteBits(a), ByteBits(b)), 0, 4)]]

\* a ^ b on bytes
XorByte(a, b) ==
    16 * XorNibble[a \div 16][b \div 16] + XorNibble[a % 16][b % 16]

\* A uint32 is the tuple of its four bytes, least significant first: TLC's
\* integers stop at 2^31 - 1.
\* binary.Write(buf, binary.BigEndian, uint32): most significant byte first
PutUint32(w) == << w[4], w[3], w[2], w[1] >>

\* binary.Read(file, binary.BigEndian, &checksum)
Uint32(b) == << b[4], b[3], b[2], b[1] >>

\* binary.Write(buf, binary.BigEndian, uint64(n)) for a length n < 2^31
PutUint64(n) ==
    << 0, 0, 0, 0,
       (n \div 16777216) % 256, (n \div 65536) % 256, (n \div 256) % 256, n % 256 >>

(***************************************************************************)
(* hash/crc32: crc32.ChecksumIEEE, reflected polynomial 0xedb88320         *)
(***************************************************************************)
\* the 1 bits of crc32.IEEE = 0xedb88320
IEEE == {31, 30, 29, 27, 26, 24, 23, 21, 20, 19, 15, 9, 8, 5}

\* one round of simpleMakeTable on a word given by its 1 bits:
\* crc = (crc >> 1) ^ poly if crc&1 == 1, crc >> 1 otherwise
crcShift1(c) ==
    IF 0 \in c THEN Xor({i - 1 : i \in c \ {0}}, IEEE)
    ELSE {i - 1 : i \in c}

RECURSIVE crcShift(_, _)
crcShift(c, n) == IF n = 0 THEN c ELSE crcShift(crcShift1(c), n - 1)

\* simpleMakeTable: the table entry of every byte, eight rounds from the byte
crcTable ==
    [x \in Byte |->
        LET w == crcShift(ByteBits(x), 8)
        IN  << BitsToInt(w, 0, 8), BitsToInt(w, 8, 8),
               BitsToInt(w, 16, 8), BitsToInt(w, 24, 8) >>]

\* simpleUpdate for one byte b: crc = tab[byte(crc) ^ b] ^ (crc >> 8)
crcByte(c, b) ==
    LET t == crcTable[XorByte(c[1], b)]
    IN  << XorByte(t[1], c[2]), XorByte(t[2], c[3]), XorByte(t[3], c[4]), t[4] >>

\* the only element of a singleton (its element is evaluated before use)
Only(S) == CHOOSE x \in S : TRUE

RECURSIVE crcUpdate(_, _, _, _)
\* simpleUpdate: the register c after bytes lo..hi of p, in order.  The
\* range is walked in two halves, the first before the second, which keeps
\* the evaluation shallow; the bytes are consumed as the loop consumes them.
crcUpdate(c, p, lo, hi) ==
    IF lo > hi THEN c
    ELSE IF lo = hi THEN crcByte(c, p[lo])
    ELSE Only({ crcUpdate(left, p, ((lo + hi) \div 2) + 1, hi) :
                    left \in { crcUpdate(c, p, lo, (lo + hi) \div 2) } })

\* crc32.ChecksumIEEE(p): the register starts at ^0 and is inverted at the end
ChecksumIEEE(p) ==
    LET c == crcUpdate(<< 255, 255, 255, 255 >>, p, 1, Len(p))
    IN  << 255 - c[1], 255 - c[2], 255 - c[3], 255 - c[4] >>

(***************************************************************************)
(* Go values                                                               *)
(***************************************************************************)
\* a nil []byte; a non-nil slice is the sequence of its bytes, so the empty
\* non-nil slice []byte{} is << >> and differs from NilSlice
NilSlice == << -1 >>

\* len(s), and the bytes of s: a nil slice has none
GoLen(s) == IF s = NilSlice THEN 0 ELSE Len(s)
GoBytes(s) == IF s = NilSlice THEN << >> ELSE s

\* error values: NoErr is a nil error
NoErr == "nil"
EOF == "io.EOF"
ErrUnexpectedEOF == "io.ErrUnexpectedEOF"
ErrInvalid == "os.ErrInvalid"
ErrCorrupt == "data corruption detected"
\* not an error value: the call does not return (runtime panic)
Panic == "panic: makeslice: len out of range"

(***************************************************************************)
(* FileLog (log.go).  f is the content of the backing file, h the handle   *)
(* fl.file: "open" or "nil".                                               *)
(***************************************************************************)
\* a faulty frame that leaves the checksum out
FrameNoChecksum(record) == PutUint64(Len(record)) \o record

\* the frame Append builds in buf: length, record, checksum
Frame(record) ==
    PutUint64(Len(record)) \o record \o PutUint32(ChecksumIEEE(record))

\* a faulty Append that takes the offset after the write instead of before
FileLogAppendOffsetAfter(h, f, record) ==
    IF h = "nil"
    THEN [file |-> f, offset |-> 0, err |-> ErrInvalid]
    ELSE [file |-> f \o Frame(GoBytes(record)),
          offset |-> Len(f \o Frame(GoBytes(record))), err |-> NoErr]

\* a faulty Append that opens the file again when the handle is nil
FileLogAppendReopens(h, f, record) ==
    [file |-> f \o Frame(GoBytes(record)), offset |-> Len(f), err |-> NoErr]

\* FileLog.Append: the file after the call, the offset returned and the error.
\* A method of a nil *os.File returns os.ErrInvalid.
FileLogAppend(h, f, record) ==
    IF h = "nil"
    THEN [file |-> f, offset |-> 0, err |-> ErrInvalid]
    ELSE [file |-> f \o Frame(GoBytes(record)), offset |-> Len(f), err |-> NoErr]

\* what io.ReadFull returns when n > 0 bytes are wanted and avail are left
ReadFullErr(avail, n) ==
    IF avail >= n THEN NoErr
    ELSE IF avail <= 0 THEN EOF
    ELSE ErrUnexpectedEOF

\* the 8 bytes at positions offset .. offset+7 (0-based) of f
LenField(f, offset) == SubSeq(f, offset + 1, offset + 8)

\* make([]byte, lenRecord) panics when lenRecord exceeds maxAlloc = 2^48
LenPanics(b) == b[1] # 0 \/ b[2] # 0

\* a length of 2^24 or more: beyond every file of the model
LenHuge(b) == \E i \in 1..5 : b[i] # 0

Uint64(b) == b[6] * 65536 + b[7] * 256 + b[8]

ReadFail(e) == [record |-> NilSlice, nextOffset |-> 0, err |-> e]

\* a faulty comparison that accepts every stored checksum
ChecksumAlwaysOk(record, checksum) == TRUE

\* log.go:114, crc32.ChecksumIEEE(record) != checksum, negated
ChecksumOk(record, checksum) == ChecksumIEEE(record) = checksum

\* the error of a write that the file system cut short
ErrWrite == "write: no space left on device"

\* FileLog.Append when fl.file.Write stores only the first n bytes of the
\* frame and returns the error of the file system
FileLogAppendShort(h, f, record, n) ==
    IF h = "nil"
    THEN [file |-> f, offset |-> 0, err |-> ErrInvalid]
    ELSE [file |-> f \o SubSeq(Frame(GoBytes(record)), 1, n),
          offset |-> 0, err |-> ErrWrite]

\* FileLog.Read: seek, length, payload, checksum, verification
FileLogRead(h, f, offset) ==
    IF h = "nil" THEN ReadFail(ErrInvalid)
    ELSE IF ReadFullErr(Len(f) - offset, 8) # NoErr
    THEN ReadFail(ReadFullErr(Len(f) - offset, 8))
    ELSE LET b == LenField(f, offset)
             avail == Len(f) - offset - 8
         IN  IF LenPanics(b) THEN ReadFail(Panic)
             ELSE IF LenHuge(b) THEN ReadFail(ReadFullErr(avail, 16777216))
             ELSE LET lenRecord == Uint64(b)
                      record == SubSeq(f, offset + 9, offset + 8 + lenRecord)
                      checksum ==
                          Uint32(SubSeq(f, offset + 9 + lenRecord,
                                           offset + 12 + lenRecord))
                  IN  IF lenRecord > 0 /\ ReadFullErr(avail, lenRecord) # NoErr
                      THEN ReadFail(ReadFullErr(avail, lenRecord))
                      ELSE IF ReadFullErr(avail - lenRecord, 4) # NoErr
                      THEN ReadFail(ReadFullErr(avail - lenRecord, 4))
                      ELSE IF ~ChecksumOk(record, checksum)
                      THEN ReadFail(ErrCorrupt)
                      ELSE [record |-> record,
                            nextOffset |-> offset + 8 + lenRecord + 4,
                            err |-> NoErr]

\* a faulty Close without the nil check: closing a nil file is an error
FileLogCloseUnguarded(h) ==
    [file |-> "nil", err |-> IF h = "nil" THEN ErrInvalid ELSE NoErr]

\* FileLog.Close: closes the file and sets fl.file to nil; a nil fl.file is
\* left alone.  Returns nil either way.
FileLogClose(h) == [file |-> "nil", err |-> NoErr]

(***************************************************************************)
(* encoding/gob of WriteOperation (wal.go)                                 *)
(*                                                                         *)
(* A fresh Encoder sends the description of the type, then one message     *)
(* with the value: its byte count, the type id 65 (ff 82) and, for each    *)
(* field that is not the zero value of its type, the distance from the     *)
(* previous field sent and the field; a 0 ends the struct.  An int is sent *)
(* doubled, a []byte as its length and its bytes.  A field that is zero    *)
(* (PUT, an empty or nil slice) is not sent, and the decoder leaves it at  *)
(* the zero value: nil for a slice.                                        *)
(***************************************************************************)
PUT == 0
DELETE == 1

WriteOperation(type, key, value) ==
    [WriteOperationType |-> type, Key |-> key, Value |-> value]

\* the message that describes the type: the same bytes in every record.
\* Only its leading type id (ff 81, -65) is kept; the descriptor that
\* follows it is constant for the type and is left out.
GobTypeDef == << 255, 129 >>

GobBytesField(delta, s) == << delta, Len(s) >> \o s

\* the fields of op as sent: field 0 WriteOperationType, 1 Key, 2 Value
GobFields(op) ==
    LET sent0 == op.WriteOperationType # 0
        sent1 == GoLen(op.Key) > 0
        sent2 == GoLen(op.Value) > 0
        prev1 == IF sent0 THEN 0 ELSE -1
        prev2 == IF sent1 THEN 1 ELSE prev1
    IN  (IF sent0 THEN << 1, 2 * op.WriteOperationType >> ELSE << >>)
        \o (IF sent1 THEN GobBytesField(1 - prev1, op.Key) ELSE << >>)
        \o (IF sent2 THEN GobBytesField(2 - prev2, op.Value) ELSE << >>)
        \o << 0 >>

\* gob.NewEncoder(buf).Encode(op); buf.Bytes()
GobEncode(op) ==
    LET body == << 255, 130 >> \o GobFields(op)
    IN  GobTypeDef \o << Len(body) >> \o body

ErrGob == "gob: decode error"

RECURSIVE GobDecodeFields(_, _, _, _)
\* the fields from index i of b on, the last field seen being number field,
\* stored into op; a record with the error on malformed input
GobDecodeFields(b, i, field, op) ==
    IF i > Len(b) THEN [op |-> op, err |-> ErrGob]
    ELSE IF b[i] = 0
    THEN [op |-> op, err |-> IF i = Len(b) THEN NoErr ELSE ErrGob]
    ELSE LET n == field + b[i]
         IN  IF n = 0
             THEN IF i + 1 > Len(b) \/ b[i + 1] >= 128 \/ b[i + 1] % 2 = 1
                  THEN [op |-> op, err |-> ErrGob]
                  ELSE GobDecodeFields(b, i + 2, n,
                           [op EXCEPT !.WriteOperationType = b[i + 1] \div 2])
             ELSE IF n \in {1, 2}
             THEN IF i + 1 > Len(b) \/ b[i + 1] >= 128 \/ i + 1 + b[i + 1] > Len(b)
                  THEN [op |-> op, err |-> ErrGob]
                  ELSE LET s == SubSeq(b, i + 2, i + 1 + b[i + 1])
                       IN  GobDecodeFields(b, i + 2 + b[i + 1], n,
                               IF n = 1 THEN [op EXCEPT !.Key = s]
                               ELSE [op EXCEPT !.Value = s])
             ELSE [op |-> op, err |-> ErrGob]

\* gob.NewDecoder(bytes.NewBuffer(record)).Decode(&op), op the zero value
GobDecode(record) ==
    LET zero == WriteOperation(PUT, NilSlice, NilSlice)
        n == Len(GobTypeDef)
    IN  IF Len(record) = 0 THEN [op |-> zero, err |-> EOF]
        ELSE IF Len(record) < n + 3 \/ SubSeq(record, 1, n) # GobTypeDef
                \/ record[n + 1] # Len(record) - n - 1
                \/ SubSeq(record, n + 2, n + 3) # << 255, 130 >>
        THEN [op |-> zero, err |-> ErrGob]
        ELSE GobDecodeFields(record, n + 4, -1, zero)

(***************************************************************************)
(* WriteAheadLog (wal.go)                                                  *)
(***************************************************************************)
\* an empty Go map (also stands where no map is returned)
EmptyMap == [k \in {} |-> NilSlice]

\* string(key): the bytes of the slice; string(nil) is ""
StringOf(key) == GoBytes(key)

\* a faulty store that forgets the other keys
MapStoreOnly(d, k, v) == [x \in {k} |-> v]

\* d[k] = v on a Go map
MapStore(d, k, v) == [x \in DOMAIN d \cup {k} |-> IF x = k THEN v ELSE d[x]]

\* a faulty delete that removes nothing
MapDeleteNothing(d, k) == d

\* delete(d, k)
MapDelete(d, k) == [x \in DOMAIN d \ {k} |-> d[x]]

\* wal.Get(key): wal.data[string(key)]; a missing key reads as nil
WalGet(d, key) == IF StringOf(key) \in DOMAIN d THEN d[StringOf(key)] ELSE NilSlice

\* the switch of readAllLogEntries on op.WriteOperationType
ApplyOp(d, op) ==
    IF op.WriteOperationType = PUT THEN MapStore(d, StringOf(op.Key), op.Value)
    ELSE IF op.WriteOperationType = DELETE THEN MapDelete(d, StringOf(op.Key))
    ELSE d

RECURSIVE readAllLogEntriesPartial(_, _, _, _)
\* a faulty replay that stops at the first error and keeps the map so far
readAllLogEntriesPartial(h, f, offset, d) ==
    LET r == FileLogRead(h, f, offset)
    IN  IF r.err # NoErr THEN [data |-> d, err |-> NoErr]
        ELSE LET g == GobDecode(r.record)
             IN  IF g.err # NoErr THEN [data |-> d, err |-> NoErr]
                 ELSE readAllLogEntriesPartial(h, f, r.nextOffset, ApplyOp(d, g.op))

RECURSIVE readAllLogEntries(_, _, _, _)
\* the loop of readAllLogEntries from offset on, d being the map so far:
\* the map and a nil error at io.EOF, no map and the error otherwise
readAllLogEntries(h, f, offset, d) ==
    LET r == FileLogRead(h, f, offset)
    IN  IF r.err = EOF THEN [data |-> d, err |-> NoErr]
        ELSE IF r.err # NoErr THEN [data |-> EmptyMap, err |-> r.err]
        ELSE LET g == GobDecode(r.record)
             IN  IF g.err # NoErr THEN [data |-> EmptyMap, err |-> g.err]
                 ELSE readAllLogEntries(h, f, r.nextOffset, ApplyOp(d, g.op))

(***************************************************************************)
(* State                                                                   *)
(***************************************************************************)
VARIABLES
    disk,      \* the bytes of the file at the log's path
    file,      \* fl.file of the current FileLog: "open" or "nil"
    wal,       \* TRUE while the caller holds a *WriteAheadLog
    data,      \* wal.data: a function from the keys present to their values
    last,      \* the last call made and what it returned
    appended,  \* history: <<offset, record>> of every successful Append
    flipped,   \* history: 0-based position of the byte a bit flip hit, or -1
    before,    \* history: what Get returned for each key at the last Close
    lastOn,    \* history: what the last successful Put/Delete on each key asks Get to return
    torn,      \* history: where a write that failed part-way left its bytes
    closes,    \* history: Close calls made on the current FileLog, counted up to 2
    cursor,    \* the file offset of the open file
    procs      \* the call each goroutine is in and the step it is at

vars == << disk, file, wal, data, last, appended, flipped, before, lastOn,
           torn, closes, cursor, procs >>

\* bounds of the model: the appends of a run, and those of a run in which
\* calls interleave
MaxAppends == 3
MaxStepAppends == 2

\* the records handed to FileLog.Append directly
Records == { << >>, << 7 >>, << 1, 2 >> }

\* the keys and values handed to Put, Delete and Get
KeyArgs == { << >>, << 5 >> }
ValueArgs == { NilSlice, << >>, << 9 >> }
Keys == { StringOf(key) : key \in KeyArgs }

Call(op, key, value, record, offset, nextOffset, err) ==
    [op |-> op, key |-> key, value |-> value, record |-> record,
     offset |-> offset, nextOffset |-> nextOffset, err |-> err]

NoCall == Call("none", NilSlice, NilSlice, NilSlice, 0, 0, NoErr)

\* no write has failed part-way
NoTorn == [offset |-> -1, n |-> 0]

\* the goroutines that call into one FileLog
Procs == {1, 2}

\* a goroutine that is in no call
Idle == [pc |-> "idle", key |-> NilSlice, value |-> NilSlice,
         record |-> << >>, offset |-> 0, from |-> 0, at |-> 0,
         lenRecord |-> 0, payload |-> << >>, mixed |-> FALSE]

(***************************************************************************)
(* The record log alone: NewFileLog, then Append / Read / Close            *)
(***************************************************************************)
\* NewFileLog on a path with no file: O_CREATE makes it empty
InitLog ==
    /\ disk = << >>
    /\ file = "open"
    /\ wal = FALSE
    /\ data = EmptyMap
    /\ last = NoCall
    /\ appended = << >>
    /\ flipped = -1
    /\ before = [k \in Keys |-> NilSlice]
    /\ lastOn = [k \in Keys |-> [kind |-> "never", value |-> NilSlice]]
    /\ torn = NoTorn
    /\ closes = 0
    /\ cursor = 0
    /\ procs = [p \in Procs |-> Idle]

\* fl.Append(record)
AppendRecord(record) ==
    /\ Len(appended) < MaxAppends
    /\ LET r == FileLogAppend(file, disk, record)
       IN  /\ disk' = r.file
           /\ last' = Call("Append", NilSlice, NilSlice, record, r.offset, 0, r.err)
           /\ appended' = IF r.err = NoErr
                          THEN Append(appended, << r.offset, record >>)
                          ELSE appended
    /\ UNCHANGED << file, wal, data, flipped, before, lastOn >>
    /\ UNCHANGED << torn, closes, cursor, procs >>

\* fl.Read(offset)
ReadAt(offset) ==
    /\ LET r == FileLogRead(file, disk, offset)
       IN  last' = Call("Read", NilSlice, NilSlice, r.record, offset, r.nextOffset, r.err)
    /\ UNCHANGED << disk, file, wal, data, appended, flipped, before, lastOn >>
    /\ UNCHANGED << torn, closes, cursor, procs >>

\* fl.Close()
CloseLog ==
    /\ wal = FALSE
    /\ file' = FileLogClose(file).file
    /\ last' = Call("Close", NilSlice, NilSlice, NilSlice, 0, 0, FileLogClose(file).err)
    /\ closes' = IF closes < 2 THEN closes + 1 ELSE closes
    /\ UNCHANGED << disk, wal, data, appended, flipped, before, lastOn >>
    /\ UNCHANGED << torn, cursor, procs >>

NextLog ==
    \/ \E record \in Records : AppendRecord(record)
    \/ \E offset \in 0..(Len(disk) + 1) : ReadAt(offset)
    \/ CloseLog

LogSpec == InitLog /\ [][NextLog]_vars

(***************************************************************************)
(* The record log on a medium that flips one bit of a stored payload or    *)
(* checksum                                                                *)
(***************************************************************************)
\* byte b with bit i inverted
FlipByte(b, i) == IF i \in ByteBits(b) THEN b - 2 ^ i ELSE b + 2 ^ i

\* the 0-based positions of the file that hold record i's payload and checksum
PayloadAndChecksum(i) ==
    (appended[i][1] + 8)..(appended[i][1] + 8 + Len(appended[i][2]) + 3)

\* one bit of the byte at 0-based position pos is inverted on the medium
FlipBit(pos, bit) ==
    /\ flipped = -1
    /\ disk' = [disk EXCEPT ![pos + 1] = FlipByte(@, bit)]
    /\ flipped' = pos
    /\ last' = Call("FlipBit", NilSlice, NilSlice, NilSlice, pos, 0, NoErr)
    /\ UNCHANGED << file, wal, data, appended, before, lastOn >>
    /\ UNCHANGED << torn, closes, cursor, procs >>

NextLogCorrupt ==
    \/ \E record \in Records : AppendRecord(record)
    \/ \E i \in 1..Len(appended) : ReadAt(appended[i][1])
    \/ \E i \in 1..Len(appended) :
          \E pos \in PayloadAndChecksum(i) : \E bit \in 0..7 : FlipBit(pos, bit)

LogCorruptSpec == InitLog /\ [][NextLogCorrupt]_vars

(***************************************************************************)
(* The write-ahead log: NewWriteAheadLog, then Put / Delete / Get, Close   *)
(* of its log and NewWriteAheadLog on the same path                        *)
(***************************************************************************)
\* NewFileLog(path) and readAllLogEntries from offset 0 into an empty map
NewWriteAheadLog(f) == readAllLogEntries("open", f, 0, EmptyMap)

\* NewWriteAheadLog on a path with no file
Init ==
    /\ disk = << >>
    /\ file = "open"
    /\ wal = TRUE
    /\ data = NewWriteAheadLog(<< >>).data
    /\ last = NoCall
    /\ appended = << >>
    /\ flipped = -1
    /\ before = [k \in Keys |-> NilSlice]
    /\ lastOn = [k \in Keys |-> [kind |-> "never", value |-> NilSlice]]
    /\ torn = NoTorn
    /\ closes = 0
    /\ cursor = 0
    /\ procs = [p \in Procs |-> Idle]

\* a faulty Put that stores the pair before it looks at the append's error
PutStoresAnyway(key, value) ==
    /\ wal
    /\ Len(appended) < MaxAppends
    /\ LET buf == GobEncode(WriteOperation(PUT, key, value))
           r == FileLogAppend(file, disk, buf)
       IN  /\ disk' = r.file
           /\ last' = Call("Put", key, value, NilSlice, 0, 0, r.err)
           /\ data' = MapStore(data, StringOf(key), value)
           /\ IF r.err # NoErr
              THEN UNCHANGED << appended, lastOn >>
              ELSE /\ appended' = Append(appended, << r.offset, buf >>)
                   /\ lastOn' = [lastOn EXCEPT ![StringOf(key)] =
                                    [kind |-> "put", value |-> value]]
    /\ UNCHANGED << file, wal, flipped, before >>
    /\ UNCHANGED << torn, closes, cursor, procs >>

\* wal.Put(key, value): encode the operation, append it and, when the append
\* succeeded, store the pair in the map
Put(key, value) ==
    /\ wal
    /\ Len(appended) < MaxAppends
    /\ LET buf == GobEncode(WriteOperation(PUT, key, value))
           r == FileLogAppend(file, disk, buf)
       IN  /\ disk' = r.file
           /\ last' = Call("Put", key, value, NilSlice, 0, 0, r.err)
           /\ IF r.err # NoErr
              THEN UNCHANGED << data, appended, lastOn >>
              ELSE /\ data' = MapStore(data, StringOf(key), value)
                   /\ appended' = Append(appended, << r.offset, buf >>)
                   /\ lastOn' = [lastOn EXCEPT ![StringOf(key)] =
                                    [kind |-> "put", value |-> value]]
    /\ UNCHANGED << file, wal, flipped, before >>
    /\ UNCHANGED << torn, closes, cursor, procs >>

\* a faulty Delete that returns early when the key has no mapping
DeleteSkipsAbsent(key) ==
    /\ wal
    /\ Len(appended) < MaxAppends
    /\ LET buf == GobEncode(WriteOperation(DELETE, key, NilSlice))
           r == IF StringOf(key) \in DOMAIN data
                THEN FileLogAppend(file, disk, buf)
                ELSE [file |-> disk, offset |-> 0, err |-> NoErr]
       IN  /\ disk' = r.file
           /\ last' = Call("Delete", key, NilSlice, NilSlice, 0, 0, r.err)
           /\ IF r.err # NoErr \/ StringOf(key) \notin DOMAIN data
              THEN UNCHANGED << data, appended, lastOn >>
              ELSE /\ data' = MapDelete(data, StringOf(key))
                   /\ appended' = Append(appended, << r.offset, buf >>)
                   /\ lastOn' = [lastOn EXCEPT ![StringOf(key)] =
                                    [kind |-> "deleted", value |-> NilSlice]]
    /\ UNCHANGED << file, wal, flipped, before >>
    /\ UNCHANGED << torn, closes, cursor, procs >>

\* wal.Delete(key): encode the operation, append it and, when the append
\* succeeded, remove the key from the map
Delete(key) ==
    /\ wal
    /\ Len(appended) < MaxAppends
    /\ LET buf == GobEncode(WriteOperation(DELETE, key, NilSlice))
           r == FileLogAppend(file, disk, buf)
       IN  /\ disk' = r.file
           /\ last' = Call("Delete", key, NilSlice, NilSlice, 0, 0, r.err)
           /\ IF r.err # NoErr
              THEN UNCHANGED << data, appended, lastOn >>
              ELSE /\ data' = MapDelete(data, StringOf(key))
                   /\ appended' = Append(appended, << r.offset, buf >>)
                   /\ lastOn' = [lastOn EXCEPT ![StringOf(key)] =
                                    [kind |-> "deleted", value |-> NilSlice]]
    /\ UNCHANGED << file, wal, flipped, before >>
    /\ UNCHANGED << torn, closes, cursor, procs >>

\* a faulty Get that asks the log first and fails once it is closed
GetChecksLog(key) ==
    /\ wal
    /\ last' = IF file = "nil"
               THEN Call("Get", key, NilSlice, NilSlice, 0, 0, ErrInvalid)
               ELSE Call("Get", key, WalGet(data, key), NilSlice, 0, 0, NoErr)
    /\ UNCHANGED << disk, file, wal, data, appended, flipped, before, lastOn >>
    /\ UNCHANGED << torn, closes, cursor, procs >>

\* wal.Get(key)
Get(key) ==
    /\ wal
    /\ last' = Call("Get", key, WalGet(data, key), NilSlice, 0, 0, NoErr)
    /\ UNCHANGED << disk, file, wal, data, appended, flipped, before, lastOn >>
    /\ UNCHANGED << torn, closes, cursor, procs >>

\* wal.log.Close()
CloseWal ==
    /\ wal
    /\ file' = FileLogClose(file).file
    /\ before' = [k \in Keys |-> WalGet(data, k)]
    /\ last' = Call("Close", NilSlice, NilSlice, NilSlice, 0, 0, FileLogClose(file).err)
    /\ closes' = IF closes < 2 THEN closes + 1 ELSE closes
    /\ UNCHANGED << disk, wal, data, appended, flipped, lastOn >>
    /\ UNCHANGED << torn, cursor, procs >>

\* NewWriteAheadLog(path) on the path of the log, once the handle on it is
\* closed or no WAL is held.  An error returns no WAL (the new handle is not
\* closed); a panic ends the process.
Reopen ==
    /\ file = "nil" \/ ~wal
    /\ LET r == NewWriteAheadLog(disk)
       IN  /\ wal' = (r.err = NoErr)
           /\ data' = r.data
           /\ file' = IF r.err = Panic THEN "nil" ELSE "open"
           /\ last' = Call("NewWriteAheadLog", NilSlice, NilSlice, NilSlice, 0, 0, r.err)
    /\ closes' = 0
    /\ UNCHANGED << disk, appended, flipped, before, lastOn >>
    /\ UNCHANGED << torn, cursor, procs >>

Next ==
    \/ \E key \in KeyArgs : \E value \in ValueArgs : Put(key, value)
    \/ \E key \in KeyArgs : Delete(key)
    \/ \E key \in KeyArgs : Get(key)
    \/ CloseWal
    \/ Reopen

Spec == Init /\ [][Next]_vars

(***************************************************************************)
(* The write-ahead log over a file that others damage while it is closed:  *)
(* a flipped bit anywhere in the file, a record that is no WriteOperation  *)
(***************************************************************************)
NextWalCorrupt ==
    \/ Put(<< 5 >>, << 9 >>)
    \/ Delete(<< 5 >>)
    \/ \E record \in Records : wal /\ AppendRecord(record)
    \/ CloseWal
    \/ Reopen
    \/ \E pos \in 0..(Len(disk) - 1) : \E bit \in {0, 7} :
          file = "nil" /\ FlipBit(pos, bit)

WalCorruptSpec == Init /\ [][NextWalCorrupt]_vars

(***************************************************************************)
(* The write-ahead log on a file system that can cut a write short: the    *)
(* Write of Append stores a proper prefix of the frame and fails           *)
(***************************************************************************)
\* wal.Put(key, value) whose append is cut short after n bytes
PutShort(key, value, n) ==
    /\ wal
    /\ file = "open"
    /\ torn = NoTorn
    /\ LET buf == GobEncode(WriteOperation(PUT, key, value))
           r == FileLogAppendShort(file, disk, buf, n)
       IN  /\ n \in 1..(Len(Frame(buf)) - 1)
           /\ disk' = r.file
           /\ last' = Call("Put", key, value, NilSlice, 0, 0, r.err)
           /\ torn' = [offset |-> Len(disk), n |-> n]
           /\ IF r.err # NoErr
              THEN UNCHANGED << data, appended, lastOn >>
              ELSE /\ data' = MapStore(data, StringOf(key), value)
                   /\ appended' = Append(appended, << r.offset, buf >>)
                   /\ lastOn' = [lastOn EXCEPT ![StringOf(key)] =
                                    [kind |-> "put", value |-> value]]
    /\ UNCHANGED << file, wal, flipped, before, closes, cursor, procs >>

\* wal.Delete(key) whose append is cut short after n bytes
DeleteShort(key, n) ==
    /\ wal
    /\ file = "open"
    /\ torn = NoTorn
    /\ LET buf == GobEncode(WriteOperation(DELETE, key, NilSlice))
           r == FileLogAppendShort(file, disk, buf, n)
       IN  /\ n \in 1..(Len(Frame(buf)) - 1)
           /\ disk' = r.file
           /\ last' = Call("Delete", key, NilSlice, NilSlice, 0, 0, r.err)
           /\ torn' = [offset |-> Len(disk), n |-> n]
           /\ IF r.err # NoErr
              THEN UNCHANGED << data, appended, lastOn >>
              ELSE /\ data' = MapDelete(data, StringOf(key))
                   /\ appended' = Append(appended, << r.offset, buf >>)
                   /\ lastOn' = [lastOn EXCEPT ![StringOf(key)] =
                                    [kind |-> "deleted", value |-> NilSlice]]
    /\ UNCHANGED << file, wal, flipped, before, closes, cursor, procs >>

\* the frame of the record that Put(key, value) appends
PutFrame(key, value) == Frame(GobEncode(WriteOperation(PUT, key, value)))

\* the frame of the record that Delete(key) appends
DeleteFrame(key) == Frame(GobEncode(WriteOperation(DELETE, key, NilSlice)))

NextTorn ==
    \/ Put(<< 5 >>, << 9 >>)
    \/ Delete(<< 5 >>)
    \/ \E n \in 1..(Len(PutFrame(<< 5 >>, << 9 >>)) - 1) :
          PutShort(<< 5 >>, << 9 >>, n)
    \/ \E n \in 1..(Len(DeleteFrame(<< 5 >>)) - 1) : DeleteShort(<< 5 >>, n)
    \/ CloseWal
    \/ Reopen

TornSpec == Init /\ [][NextTorn]_vars

(***************************************************************************)
(* The write-ahead log step by step: Put and Delete as the append followed *)
(* by the update of the map, and a process that can die between any two    *)
(* steps                                                                   *)
(***************************************************************************)
\* wal.Put(key, value) up to the return of wal.log.Append (wal.go:66-86)
PutAppend(key, value) ==
    /\ wal
    /\ procs[1].pc = "idle"
    /\ Len(appended) < MaxAppends
    /\ LET buf == GobEncode(WriteOperation(PUT, key, value))
           r == FileLogAppend(file, disk, buf)
       IN  /\ disk' = r.file
           /\ IF r.err # NoErr
              THEN /\ last' = Call("Put", key, value, NilSlice, 0, 0, r.err)
                   /\ UNCHANGED << appended, procs >>
              ELSE /\ appended' = Append(appended, << r.offset, buf >>)
                   /\ procs' = [procs EXCEPT ![1] =
                                   [Idle EXCEPT !.pc = "put_store", !.key = key,
                                                !.value = value, !.offset = r.offset]]
                   /\ UNCHANGED last
    /\ UNCHANGED << file, wal, data, flipped, before, lastOn, torn, closes, cursor >>

\* wal.Put from the store into the map to the return (wal.go:88-90)
PutStore ==
    /\ wal
    /\ procs[1].pc = "put_store"
    /\ data' = MapStore(data, StringOf(procs[1].key), procs[1].value)
    /\ lastOn' = [lastOn EXCEPT ![StringOf(procs[1].key)] =
                     [kind |-> "put", value |-> procs[1].value]]
    /\ last' = Call("Put", procs[1].key, procs[1].value, NilSlice, 0, 0, NoErr)
    /\ procs' = [procs EXCEPT ![1] = Idle]
    /\ UNCHANGED << disk, file, wal, appended, flipped, before, torn, closes, cursor >>

\* wal.Delete(key) up to the return of wal.log.Append (wal.go:94-113)
DeleteAppend(key) ==
    /\ wal
    /\ procs[1].pc = "idle"
    /\ Len(appended) < MaxAppends
    /\ LET buf == GobEncode(WriteOperation(DELETE, key, NilSlice))
           r == FileLogAppend(file, disk, buf)
       IN  /\ disk' = r.file
           /\ IF r.err # NoErr
              THEN /\ last' = Call("Delete", key, NilSlice, NilSlice, 0, 0, r.err)
                   /\ UNCHANGED << appended, procs >>
              ELSE /\ appended' = Append(appended, << r.offset, buf >>)
                   /\ procs' = [procs EXCEPT ![1] =
                                   [Idle EXCEPT !.pc = "delete_store", !.key = key,
                                                !.offset = r.offset]]
                   /\ UNCHANGED last
    /\ UNCHANGED << file, wal, data, flipped, before, lastOn, torn, closes, cursor >>

\* wal.Delete from the removal from the map to the return (wal.go:115-117)
DeleteStore ==
    /\ wal
    /\ procs[1].pc = "delete_store"
    /\ data' = MapDelete(data, StringOf(procs[1].key))
    /\ lastOn' = [lastOn EXCEPT ![StringOf(procs[1].key)] =
                     [kind |-> "deleted", value |-> NilSlice]]
    /\ last' = Call("Delete", procs[1].key, NilSlice, NilSlice, 0, 0, NoErr)
    /\ procs' = [procs EXCEPT ![1] = Idle]
    /\ UNCHANGED << disk, file, wal, appended, flipped, before, torn, closes, cursor >>

\* the process dies between two steps: the map is gone and the file, with
\* every completed write, stays.  before keeps what Get returned at that
\* moment; lastOn also takes the operation whose record is in the file but
\* whose store into the map had not run.
Crash ==
    /\ wal
    /\ wal' = FALSE
    /\ file' = "nil"
    /\ data' = EmptyMap
    /\ before' = [k \in Keys |-> WalGet(data, k)]
    /\ lastOn' = IF procs[1].pc = "put_store"
                 THEN [lastOn EXCEPT ![StringOf(procs[1].key)] =
                          [kind |-> "put", value |-> procs[1].value]]
                 ELSE IF procs[1].pc = "delete_store"
                 THEN [lastOn EXCEPT ![StringOf(procs[1].key)] =
                          [kind |-> "deleted", value |-> NilSlice]]
                 ELSE lastOn
    /\ procs' = [procs EXCEPT ![1] = Idle]
    /\ last' = Call("Crash", NilSlice, NilSlice, NilSlice, 0, 0, NoErr)
    /\ closes' = 0
    /\ UNCHANGED << disk, appended, flipped, torn, cursor >>

NextWalStep ==
    \/ \E key \in KeyArgs : \E value \in ValueArgs : PutAppend(key, value)
    \/ PutStore
    \/ \E key \in KeyArgs : DeleteAppend(key)
    \/ DeleteStore
    \/ \E key \in KeyArgs : procs[1].pc = "idle" /\ Get(key)
    \/ procs[1].pc = "idle" /\ CloseWal
    \/ Crash
    \/ Reopen

WalStepSpec == Init /\ [][NextWalStep]_vars

(***************************************************************************)
(* The record log step by step: each call is the sequence of its system    *)
(* calls on the one open file, whose cursor they share.  Several           *)
(* goroutines call into the same FileLog; nothing in FileLog orders them.  *)
(***************************************************************************)
\* f after a write of buf with the cursor at pos: bytes there are replaced,
\* the file grows as needed and a gap past its end reads as zeros
WriteAt(f, pos, buf) ==
    [i \in 1..(IF pos + Len(buf) > Len(f) THEN pos + Len(buf) ELSE Len(f)) |->
        IF i > pos /\ i <= pos + Len(buf) THEN buf[i - pos]
        ELSE IF i <= Len(f) THEN f[i]
        ELSE 0]

\* the bytes a read of up to n bytes gets with the cursor at pos
ReadBytes(f, pos, n) ==
    SubSeq(f, pos + 1, IF pos + n > Len(f) THEN Len(f) ELSE pos + n)

\* goroutine p moves to the state np; every other goroutine that is inside
\* a call has had a step of another call between two of its own
Step(p, np) ==
    [q \in Procs |-> IF q = p THEN np
                     ELSE IF procs[q].pc # "idle"
                     THEN [procs[q] EXCEPT !.mixed = TRUE]
                     ELSE procs[q]]

\* the calls that have started an Append and not yet written
Appending == { q \in Procs : procs[q].pc = "append_write" }

\* a faulty Append that seeks relative to the cursor instead of to the end
AppendSeekCurrent(p, record) ==
    /\ procs[p].pc = "idle"
    /\ Len(appended) + Cardinality(Appending) < MaxAppends
    /\ procs' = Step(p, [Idle EXCEPT !.pc = "append_write",
                                      !.record = GoBytes(record),
                                      !.from = cursor,
                                      !.offset = cursor])
    /\ UNCHANGED << disk, file, wal, data, last, appended, flipped, before,
                    lastOn, torn, closes, cursor >>

\* fl.Append(record) up to the write: fl.file.Seek(0, io.SeekEnd) moves the
\* cursor to the end of the file and gives the offset to return
\* (log.go:40-73)
AppendSeek(p, record) ==
    /\ procs[p].pc = "idle"
    /\ Len(appended) + Cardinality(Appending) < MaxAppends
    /\ IF file = "nil"
       THEN /\ last' = Call("Append", NilSlice, NilSlice, record, 0, 0, ErrInvalid)
            /\ procs' = Step(p, Idle)
            /\ UNCHANGED cursor
       ELSE /\ cursor' = Len(disk)
            /\ procs' = Step(p, [Idle EXCEPT !.pc = "append_write",
                                              !.record = GoBytes(record),
                                              !.from = cursor,
                                              !.offset = Len(disk)])
            /\ UNCHANGED last
    /\ UNCHANGED << disk, file, wal, data, appended, flipped, before, lastOn,
                    torn, closes >>

\* fl.file.Write(buf.Bytes()) at the cursor, and the return of the offset
\* the seek gave (log.go:76-82).  at keeps where the frame went.
AppendWrite(p) ==
    /\ procs[p].pc = "append_write"
    /\ disk' = WriteAt(disk, cursor, Frame(procs[p].record))
    /\ cursor' = cursor + Len(Frame(procs[p].record))
    /\ appended' = Append(appended, << procs[p].offset, procs[p].record >>)
    /\ last' = Call("Append", NilSlice, NilSlice, procs[p].record,
                    procs[p].offset, 0, NoErr)
    /\ procs' = Step(p, [Idle EXCEPT !.offset = procs[p].offset,
                                      !.from = procs[p].from, !.at = cursor,
                                      !.mixed = procs[p].mixed])
    /\ UNCHANGED << file, wal, data, flipped, before, lastOn, torn, closes >>

\* fl.Read(offset) up to the first read: fl.file.Seek(offset, io.SeekStart)
\* (log.go:87-90)
ReadSeek(p, offset) ==
    /\ procs[p].pc = "idle"
    /\ IF file = "nil"
       THEN /\ last' = Call("Read", NilSlice, NilSlice, NilSlice, offset, 0, ErrInvalid)
            /\ procs' = Step(p, Idle)
            /\ UNCHANGED cursor
       ELSE /\ cursor' = offset
            /\ procs' = Step(p, [Idle EXCEPT !.pc = "read_len", !.offset = offset])
            /\ UNCHANGED last
    /\ UNCHANGED << disk, file, wal, data, appended, flipped, before, lastOn,
                    torn, closes >>

\* Read returns (nil, 0, err)
ReadReturnsErr(p, err) ==
    /\ last' = Call("Read", NilSlice, NilSlice, NilSlice, procs[p].offset, 0, err)
    /\ procs' = Step(p, Idle)

\* binary.Read of lenRecord at the cursor (log.go:93-97) and
\* make([]byte, lenRecord) (log.go:100), which panics on a length out of
\* range and so ends the process
ReadLen(p) ==
    /\ procs[p].pc = "read_len"
    /\ LET got == ReadBytes(disk, cursor, 8)
       IN  /\ cursor' = cursor + Len(got)
           /\ IF Len(got) < 8
              THEN ReadReturnsErr(p, ReadFullErr(Len(got), 8)) /\ UNCHANGED file
              ELSE IF LenPanics(got)
              THEN /\ last' = Call("Read", NilSlice, NilSlice, NilSlice,
                                   procs[p].offset, 0, Panic)
                   /\ procs' = [q \in Procs |-> [Idle EXCEPT !.pc = "dead"]]
                   /\ file' = "nil"
              ELSE /\ procs' = Step(p, [procs[p] EXCEPT
                                   !.pc = "read_payload",
                                   !.lenRecord = IF LenHuge(got) THEN 16777216
                                                 ELSE Uint64(got)])
                   /\ UNCHANGED << last, file >>
    /\ UNCHANGED << disk, wal, data, appended, flipped, before, lastOn, torn, closes >>

\* io.ReadFull(fl.file, record) at the cursor (log.go:101-104)
ReadPayload(p) ==
    /\ procs[p].pc = "read_payload"
    /\ LET got == ReadBytes(disk, cursor, procs[p].lenRecord)
       IN  /\ cursor' = cursor + Len(got)
           /\ IF Len(got) < procs[p].lenRecord
              THEN ReadReturnsErr(p, ReadFullErr(Len(got), procs[p].lenRecord))
              ELSE /\ procs' = Step(p, [procs[p] EXCEPT !.pc = "read_checksum",
                                                        !.payload = got])
                   /\ UNCHANGED last
    /\ UNCHANGED << disk, file, wal, data, appended, flipped, before, lastOn,
                    torn, closes >>

\* binary.Read of the checksum at the cursor, the comparison and the return
\* (log.go:107-120)
ReadChecksum(p) ==
    /\ procs[p].pc = "read_checksum"
    /\ LET got == ReadBytes(disk, cursor, 4)
       IN  /\ cursor' = cursor + Len(got)
           /\ IF Len(got) < 4
              THEN ReadReturnsErr(p, ReadFullErr(Len(got), 4))
              ELSE IF ~ChecksumOk(procs[p].payload, Uint32(got))
              THEN ReadReturnsErr(p, ErrCorrupt)
              ELSE /\ last' = Call("Read", NilSlice, NilSlice, procs[p].payload,
                                   procs[p].offset,
                                   procs[p].offset + 8 + procs[p].lenRecord + 4,
                                   NoErr)
                   /\ procs' = Step(p, Idle)
    /\ UNCHANGED << disk, file, wal, data, appended, flipped, before, lastOn,
                    torn, closes >>

\* the offsets that Appends have returned
Offsets == { appended[i][1] : i \in 1..Len(appended) }

\* the records and offsets the callers of the step-wise log use
StepRecords == { << >>, << 7 >> }
StepOffsets == Offsets \cup {0}

\* the steps that go on with a call that has started
Continue(p) ==
    \/ AppendWrite(p)
    \/ ReadLen(p)
    \/ ReadPayload(p)
    \/ ReadChecksum(p)

\* goroutines call Append and Read on the same FileLog with nothing to
\* order them: any step of any call can follow any step of another
NextLogStep ==
    \E p \in Procs :
        \/ \E record \in StepRecords :
              /\ Len(appended) + Cardinality(Appending) < MaxStepAppends
              /\ AppendSeek(p, record)
        \/ \E offset \in StepOffsets : ReadSeek(p, offset)
        \/ Continue(p)

LogStepSpec == InitLog /\ [][NextLogStep]_vars

\* no call is in progress
Serial == \A q \in Procs : procs[q].pc = "idle"

\* the callers serialize their calls: a call starts when no other is in
\* progress
NextLogSerial ==
    \E p \in Procs :
        \/ \E record \in StepRecords : Serial /\ AppendSeek(p, record)
        \/ \E offset \in StepOffsets : Serial /\ ReadSeek(p, offset)
        \/ Continue(p)

LogSerialSpec == InitLog /\ [][NextLogSerial]_vars

(***************************************************************************)
(* Properties of the record log                                            *)
(***************************************************************************)
\* C3 (round trip): right after a successful Append(r) that returned offset,
\* Read(offset) returns exactly r, the offset offset + 8 + len(r) + 4 and no
\* error.
C3_RoundTrip ==
    (last.op = "Append" /\ last.err = NoErr) =>
        FileLogRead(file, disk, last.offset) =
            [record |-> last.record,
             nextOffset |-> last.offset + 8 + Len(last.record) + 4,
             err |-> NoErr]

\* an Append of a non-empty record has been read back at the offset it returned
C3_Witness ==
    /\ Len(appended) > 0
    /\ last.op = "Read" /\ last.err = NoErr
    /\ last.offset = appended[Len(appended)][1]
    /\ last.record = appended[Len(appended)][2]
    /\ Len(last.record) > 0
    /\ last.nextOffset = last.offset + 8 + Len(last.record) + 4

\* the offset that follows record i: the next record's, or the end of the file
After(i) == IF i < Len(appended) THEN appended[i + 1][1] ELSE Len(disk)

\* C4 (sequencing): the first Append returns 0, the length of the new file;
\* every Append returns the length the file had before it and grows the file
\* by 8 + len(record) + 4, so consecutive offsets o1 < o2 satisfy
\* o2 = o1 + 8 + len(r1) + 4, and Read(o1) returns (r1, o2).
C4_Sequencing ==
    /\ Len(appended) > 0 => appended[1][1] = 0
    /\ Len(appended) = 0 => Len(disk) = 0
    /\ \A i \in 1..Len(appended) :
          /\ appended[i][1] < After(i)
          /\ After(i) = appended[i][1] + 8 + Len(appended[i][2]) + 4
          /\ file = "open" =>
                FileLogRead(file, disk, appended[i][1]) =
                    [record |-> appended[i][2], nextOffset |-> After(i), err |-> NoErr]

\* two records were appended and Read at the first returned the second's offset
C4_Witness ==
    /\ Len(appended) >= 2
    /\ last.op = "Read" /\ last.err = NoErr
    /\ last.offset = appended[1][1]
    /\ last.record = appended[1][2]
    /\ last.nextOffset = appended[2][1]
    /\ appended[2][1] > appended[1][1]

\* C7 (closed-log guard): once the log is closed it stays closed, the file is
\* not modified, and every Append and every Read, at any offset, returns an
\* error.
C7_ClosedGuard ==
    [][file = "nil" =>
          /\ file' = "nil"
          /\ disk' = disk
          /\ last'.op \in {"Append", "Read"} => last'.err = ErrInvalid
          /\ \A record \in Records :
                /\ FileLogAppend(file', disk', record).err = ErrInvalid
                /\ FileLogAppend(file', disk', record).file = disk
          /\ \A offset \in 0..(Len(disk) + 1) :
                FileLogRead(file', disk', offset).err = ErrInvalid]_vars

\* an Append was refused on a closed log that holds records
C7_Witness ==
    /\ file = "nil"
    /\ Len(appended) > 0
    /\ last.op = "Append" /\ last.err = ErrInvalid

\* C8 (invalid offset guard), as claimed: on an open log, Read at any offset
\* that no Append returned does not succeed.
C8_InvalidOffsetFails ==
    file = "open" =>
        \A offset \in (0..(Len(disk) + 1)) \ Offsets :
            FileLogRead(file, disk, offset).err # NoErr

\* C9 (corruption detection): after one bit of a stored record's payload or
\* checksum was flipped, Read at that record's offset returns the corruption
\* error and no payload.
C9_CorruptionDetected ==
    (flipped >= 0 /\ file = "open") =>
        \A i \in 1..Len(appended) :
            flipped \in PayloadAndChecksum(i) =>
                FileLogRead(file, disk, appended[i][1]) = ReadFail(ErrCorrupt)

\* the record hit by the flip was read and the read reported corruption
C9_Witness ==
    /\ flipped >= 0
    /\ last.op = "Read" /\ last.err = ErrCorrupt /\ last.record = NilSlice
    /\ \E i \in 1..Len(appended) :
          /\ last.offset = appended[i][1]
          /\ flipped \in PayloadAndChecksum(i)
          /\ Len(appended[i][2]) > 0

(***************************************************************************)
(* Properties of the write-ahead log                                       *)
(***************************************************************************)
\* C1 (durability across reopen), as claimed: after the log was closed and
\* NewWriteAheadLog ran on the same path, a WAL is returned whose Get gives
\* for every key what Get gave just before the close.
C1_SameGetAfterReopen ==
    last.op = "NewWriteAheadLog" =>
        /\ wal
        /\ last.err = NoErr
        /\ \A k \in Keys : WalGet(data, k) = before[k]

\* C2 (replay order, last write wins), as claimed: after a reopen Get(key) is
\* what the last successful operation on key asks for: the value of a Put,
\* nil after a Delete or when the key was never written.
C2_LastWriteWinsAfterReopen ==
    last.op = "NewWriteAheadLog" =>
        \A k \in Keys : WalGet(data, k) = lastOn[k].value

\* C5 (put then get): a successful Put(k, v) makes Get(k) return v; no call
\* on the WAL other than a successful Put or Delete on k changes what Get(k)
\* returns, whatever is put or deleted under other keys; and Get returns the
\* stored value with a nil error.
C5_PutThenGet ==
    [][/\ (last'.op = "Put" /\ last'.err = NoErr) =>
              WalGet(data', last'.key) = last'.value
       /\ \A k \in Keys :
              (/\ last'.op \in {"Put", "Delete", "Get", "Close"}
               /\ ~(/\ last'.op \in {"Put", "Delete"}
                    /\ last'.err = NoErr
                    /\ StringOf(last'.key) = k))
              => WalGet(data', k) = WalGet(data, k)
       /\ last'.op = "Get" =>
              (last'.err = NoErr /\ last'.value = WalGet(data, last'.key))]_vars

\* Get returned the value put under its key although the last write was to
\* another key
C5_Witness ==
    /\ last.op = "Get" /\ last.err = NoErr
    /\ last.value = << 9 >>
    /\ lastOn[StringOf(last.key)] = [kind |-> "put", value |-> << 9 >>]
    /\ Len(appended) >= 2
    /\ \E k2 \in KeyArgs :
          /\ StringOf(k2) # StringOf(last.key)
          /\ appended[Len(appended)][2] \in
                { GobEncode(WriteOperation(DELETE, k2, NilSlice)) }
                \cup { GobEncode(WriteOperation(PUT, k2, v)) : v \in ValueArgs }

\* C6 (absent keys): while a WAL is held, Get(k) is nil, with a nil error,
\* for every key never put and for every key whose last successful operation
\* was a Delete: the two cases read the same.
C6_AbsentIsNil ==
    /\ wal => \A k \in Keys :
                 lastOn[k].kind \in {"never", "deleted"} => WalGet(data, k) = NilSlice
    /\ (last.op = "Get" /\ lastOn[StringOf(last.key)].kind \in {"never", "deleted"}) =>
           (last.value = NilSlice /\ last.err = NoErr)

\* a key was put, then deleted, and Get returned nil for it
C6_Witness ==
    /\ last.op = "Get" /\ last.err = NoErr /\ last.value = NilSlice
    /\ lastOn[StringOf(last.key)].kind = "deleted"
    /\ Len(appended) >= 2
    /\ appended[1][2] = GobEncode(WriteOperation(PUT, last.key, << 9 >>))
    /\ appended[2][2] = GobEncode(WriteOperation(DELETE, last.key, NilSlice))

RECURSIVE ScanOffsets(_, _)
\* the offsets replay reads at: 0, then the offset after each readable frame
ScanOffsets(f, offset) ==
    LET r == FileLogRead("open", f, offset)
    IN  IF r.err = NoErr THEN {offset} \cup ScanOffsets(f, r.nextOffset)
        ELSE {offset}

\* Read at offset returns an error that is not io.EOF, or a record that does
\* not decode
BadRecord(f, offset) ==
    LET r == FileLogRead("open", f, offset)
    IN  \/ r.err \notin {NoErr, EOF, Panic}
        \/ r.err = NoErr /\ GobDecode(r.record).err # NoErr

\* C10 (all-or-nothing construction): when replay meets a read error other
\* than io.EOF (a checksum mismatch included) or a record that does not
\* decode, NewWriteAheadLog returns that error and no WAL, whatever it had
\* replayed before.
C10_AllOrNothing ==
    (/\ last.op = "NewWriteAheadLog"
     /\ \E offset \in ScanOffsets(disk, 0) : BadRecord(disk, offset)) =>
        /\ ~wal
        /\ data = EmptyMap
        /\ last.err \notin {NoErr, Panic}

\* construction failed on a corrupted record that follows an intact one
C10_Witness ==
    /\ last.op = "NewWriteAheadLog" /\ last.err = ErrCorrupt
    /\ ~wal
    /\ flipped >= appended[1][1] + 8 + Len(appended[1][2]) + 4
    /\ FileLogRead("open", disk, 0).err = NoErr
    /\ BadRecord(disk, FileLogRead("open", disk, 0).nextOffset)

(***************************************************************************)
(* Properties of the write-ahead log over a file with a torn last frame    *)
(***************************************************************************)
\* the file is complete frames followed by a non-empty proper prefix of one
TornAtEnd == torn.n > 0 /\ torn.offset + torn.n = Len(disk)

\* C11 (truncated final record), as claimed: when the file is complete
\* frames followed by a non-empty proper prefix of a frame, Read at the start
\* of the partial frame returns an error other than io.EOF, and
\* NewWriteAheadLog on that file fails.
C11_TruncatedIsError ==
    TornAtEnd =>
        /\ FileLogRead("open", disk, torn.offset).err \notin {NoErr, EOF}
        /\ last.op = "NewWriteAheadLog" => (~wal /\ last.err # NoErr)

\* C12 (failed append leaves the map unchanged): when the append made by
\* Put or Delete fails, because the log was closed or because the write was
\* cut short, the call returns the append's error and Get returns for every
\* key what it returned before the call.
C12_FailedAppendKeepsMap ==
    [][last'.op \in {"Put", "Delete"} =>
          /\ (file = "nil" \/ torn' # torn) => last'.err # NoErr
          /\ file = "nil" => last'.err = ErrInvalid
          /\ torn' # torn => last'.err = ErrWrite
          /\ last'.err # NoErr =>
                /\ data' = data
                /\ \A key \in KeyArgs : WalGet(data', key) = WalGet(data, key)]_vars

\* a Put whose write was cut short returned the error and left its key, deleted
\* before, without a mapping
C12_Witness ==
    /\ last.op = "Put" /\ last.err = ErrWrite
    /\ torn.n > 0
    /\ lastOn[StringOf(last.key)].kind = "deleted"
    /\ WalGet(data, last.key) = NilSlice
    /\ StringOf(last.key) \notin DOMAIN data

\* C13 (delete of an absent key): on an open log, Delete of a key that has no
\* mapping appends exactly one frame, the one of the DELETE record of the
\* key, returns nil and leaves the map as it was.
C13_DeleteAbsentAppends ==
    [][(/\ last'.op = "Delete"
        /\ file = "open"
        /\ StringOf(last'.key) \notin DOMAIN data) =>
          /\ last'.err = NoErr
          /\ disk' = disk \o DeleteFrame(last'.key)
          /\ Len(disk') = Len(disk) + 8 + Len(GobEncode(
                 WriteOperation(DELETE, last'.key, NilSlice))) + 4
          /\ GobDecode(FileLogRead("open", disk', Len(disk)).record).op
                 .WriteOperationType = DELETE
          /\ Len(appended') = Len(appended) + 1
          /\ data' = data]_vars

\* the only call made was a Delete of a key never put: it succeeded, the
\* file holds its one frame and the map is empty
C13_Witness ==
    /\ last.op = "Delete" /\ last.err = NoErr
    /\ last.key = << 5 >>
    /\ Len(appended) = 1
    /\ disk = DeleteFrame(<< 5 >>)
    /\ data = EmptyMap

\* C14 (Get is a pure lookup): a Get changes neither the file, its handle,
\* its cursor nor the map, returns the map's entry with a nil error, and does
\* so as well when the log has been closed.
C14_GetIsPure ==
    [][last'.op = "Get" =>
          /\ disk' = disk /\ file' = file /\ cursor' = cursor
          /\ data' = data /\ appended' = appended
          /\ last'.err = NoErr
          /\ last'.value = WalGet(data, last'.key)]_vars

\* Get returned the stored value on a closed log
C14_Witness ==
    /\ last.op = "Get" /\ last.err = NoErr
    /\ file = "nil" /\ closes > 0
    /\ last.value = << 9 >>

\* C15 (Close is idempotent): every Close returns nil and leaves the file
\* handle nil, also when the log was closed before; nothing but a new
\* NewWriteAheadLog opens it again.
C15_CloseIdempotent ==
    [][/\ last'.op = "Close" => (file' = "nil" /\ last'.err = NoErr /\ disk' = disk)
       /\ (file = "nil" /\ last'.op # "NewWriteAheadLog") => file' = "nil"]_vars

\* a second Close returned nil on a log that holds records
C15_Witness ==
    /\ last.op = "Close" /\ last.err = NoErr
    /\ closes = 2
    /\ file = "nil"
    /\ Len(appended) > 0

(***************************************************************************)
(* Properties of the calls of the record log taken step by step            *)
(***************************************************************************)
\* goroutine p makes the write of its Append in this step
Writes(p) == procs[p].pc = "append_write" /\ procs'[p].pc = "idle"

\* C18 (unserialized calls corrupt the log): the write of an Append goes to
\* the end of the file, at the offset the call returns, when no step of
\* another call came between its seek and its write; when one did, the
\* frame can land elsewhere (the witness below is such a run).
C18_OnlyInterleavingMisplaces ==
    [][\A p \in Procs :
          (Writes(p) /\ ~procs[p].mixed) =>
              /\ cursor = Len(disk)
              /\ procs[p].offset = Len(disk)
              /\ procs'[p].at = procs'[p].offset
              /\ disk' = disk \o Frame(procs[p].record)]_vars

\* an Append whose seek and write another call's step separated has written
\* its frame at a position other than the end of file its seek saw, which is
\* the offset it returned, and a record appended before no longer reads back
C18_Witness ==
    \E p \in Procs :
        /\ procs[p].pc = "idle"
        /\ procs[p].mixed
        /\ last.op = "Append" /\ last.err = NoErr
        /\ last.offset = procs[p].offset
        /\ procs[p].at # procs[p].offset
        /\ \E i \in 1..Len(appended) :
              FileLogRead("open", disk, appended[i][1]).record # appended[i][2]

\* C19 (append-only stability): when calls are serialized, the write of an
\* Append goes to the end of the file wherever the cursor was left, no step
\* changes a byte the file already had, every record appended so far reads
\* back at the offset its Append returned, and a Read call that ends at such
\* an offset has returned that record.
C19_AppendOnlyStable ==
    [][/\ Len(disk') >= Len(disk)
       /\ SubSeq(disk', 1, Len(disk)) = disk
       /\ \A p \in Procs :
             Writes(p) => /\ procs'[p].at = Len(disk)
                          /\ procs'[p].offset = Len(disk)
                          /\ disk' = disk \o Frame(procs[p].record)
       /\ \A i \in 1..Len(appended') :
             /\ FileLogRead("open", disk', appended'[i][1]).record = appended'[i][2]
             /\ FileLogRead("open", disk', appended'[i][1]).err = NoErr
             /\ (last'.op = "Read" /\ last'.offset = appended'[i][1]) =>
                    (last'.err = NoErr /\ last'.record = appended'[i][2])]_vars

\* an Append that found the cursor inside the file, where a Read had left
\* it, wrote at the end, and a later Read of the first record returned it
C19_Witness ==
    /\ Len(appended) >= 2
    /\ \E p \in Procs : /\ procs[p].pc = "idle"
                         /\ procs[p].from < procs[p].offset
                         /\ procs[p].at = procs[p].offset
                         /\ procs[p].offset = appended[Len(appended)][1]
    /\ last.op = "Read" /\ last.err = NoErr
    /\ last.offset = appended[1][1]
    /\ last.record = appended[1][2]
    /\ Len(last.record) > 0

\* C17 (reopen after failed calls), as claimed: after Puts and Deletes of
\* which some failed, one of them after writing part of its frame,
\* NewWriteAheadLog on the same path succeeds and Get gives for every key
\* what the last call on it that returned success asks for.
C17_ReopenReflectsSuccesses ==
    last.op = "NewWriteAheadLog" =>
        /\ wal
        /\ last.err = NoErr
        /\ \A k \in Keys : WalGet(data, k) = lastOn[k].value

(***************************************************************************)
(* Properties of the steps of Put and Delete                               *)
(***************************************************************************)
\* the operation that record i of the log encodes
OpOf(i) == GobDecode(appended[i][2]).op

\* the records whose operation has been stored into the map: all of them but
\* the one of a call that is between its append and its store
Stored == IF procs[1].pc \in {"put_store", "delete_store"}
          THEN Len(appended) - 1 ELSE Len(appended)

\* the records up to n that are on key k
RecordsOn(k, n) == { i \in 1..n : StringOf(OpOf(i).Key) = k }

\* the last record up to n on key k (there is one)
LastOn(k, n) == CHOOSE i \in RecordsOn(k, n) : \A j \in RecordsOn(k, n) : j <= i

\* record i is complete in the file
Complete(i) ==
    FileLogRead("open", disk, appended[i][1]) =
        [record |-> appended[i][2], nextOffset |-> After(i), err |-> NoErr]

\* the map holds what the stored records say and nothing else: it is never
\* ahead of the log
MapBehindLog ==
    wal => /\ \A i \in 1..Len(appended) : Complete(i)
           /\ \A k \in Keys :
                 IF k \in DOMAIN data
                 THEN /\ RecordsOn(k, Stored) # {}
                      /\ appended[LastOn(k, Stored)][2] =
                             GobEncode(WriteOperation(PUT, k, data[k]))
                 ELSE \/ RecordsOn(k, Stored) = {}
                      \/ OpOf(LastOn(k, Stored)).WriteOperationType = DELETE

\* after a crash and NewWriteAheadLog on the same path, Get gives for every
\* key what it gave when the process died, or what the operation asks for
\* whose record had reached the file without its store into the map
NothingExposedIsLost ==
    last.op = "NewWriteAheadLog" =>
        /\ wal
        /\ \A k \in Keys : \/ WalGet(data, k) = before[k]
                            \/ WalGet(data, k) = lastOn[k].value

\* C16 (write-ahead ordering), as claimed: at every step the map holds only
\* changes whose complete record is in the file, and after a crash at any
\* step the reopened WAL has lost no change that Get had returned.
C16_WriteAheadOrdering == MapBehindLog /\ NothingExposedIsLost

(***************************************************************************)
(* Properties of the replay loop                                           *)
(***************************************************************************)
RECURSIVE ReplayReads(_, _)
\* the offsets of the Read calls that readAllLogEntries makes on file f from
\* offset on, in order: the loop goes on after a Read that succeeded with a
\* record that decodes, and ends with any other
ReplayReads(f, offset) ==
    LET r == FileLogRead("open", f, offset)
    IN  IF r.err = NoErr /\ GobDecode(r.record).err = NoErr
        THEN << offset >> \o ReplayReads(f, r.nextOffset)
        ELSE << offset >>

\* every successful Read at an offset of the file returns a nextOffset at
\* least 12 beyond it
ReadAdvances ==
    \A offset \in 0..Len(disk) :
        FileLogRead("open", disk, offset).err = NoErr =>
            FileLogRead("open", disk, offset).nextOffset >= offset + 12

\* replay reads at strictly increasing offsets, at most once per 12 bytes of
\* the file and once more
ReplayIsFinite ==
    LET reads == ReplayReads(disk, 0)
    IN  /\ Len(reads) <= (Len(disk) \div 12) + 1
        /\ \A i \in 1..(Len(reads) - 1) : reads[i + 1] >= reads[i] + 12

\* on a file that holds only records of Put and Delete, untouched, replay
\* reads at the offset of each appended record, in order, then at the end
ReplayVisitsAppended ==
    (flipped = -1 /\ \A i \in 1..Len(appended) : GobDecode(appended[i][2]).err = NoErr) =>
        ReplayReads(disk, 0) =
            [i \in 1..(Len(appended) + 1) |->
                IF i <= Len(appended) THEN appended[i][1] ELSE Len(disk)]

\* NewWriteAheadLog returned: a WAL with its map, or an error and no WAL
ReplayReturns ==
    last.op = "NewWriteAheadLog" =>
        \/ wal /\ last.err = NoErr
        \/ ~wal /\ last.err \notin {NoErr, Panic}

\* C20 (replay terminates), as claimed: on every file content the replay of
\* NewWriteAheadLog makes finitely many Reads, each successful one advancing
\* by at least 12 bytes, and ends with a map or with an error; on a log
\* written by successful Appends only it visits the appended records in
\* order, once each.
C20_ReplayTerminates ==
    /\ ReadAdvances
    /\ ReplayIsFinite
    /\ ReplayVisitsAppended
    /\ ReplayReturns

====
